---- MODULE Spec2Model ----
(***************************************************************************)
(* strip.py: recursively remove trailing newline bytes from files.         *)
(*                                                                         *)
(* Two specifications:                                                     *)
(*   SpecTrim  the trim loop of remove_trailing_newlines and its copy in   *)
(*             the dry-run branch of process_directory, run one iteration  *)
(*             at a time on every byte sequence up to MaxLen;              *)
(*   Spec      main() and process_directory() walking a directory tree,    *)
(*             with per-file I/O failures and a user interrupt as          *)
(*             environment choices.                                        *)
(***************************************************************************)
EXTENDS Integers, Sequences, FiniteSets, TLC

\* ------------------------------------------------------------- bounds
\* longest byte sequence given to the trim loops (SpecTrim)
MaxLen == 4
\* longest content of a file of the walked tree (Spec)
MaxFileLen == 2

\* ------------------------------------------------------------- bytes
LF == 10
CR == 13
\* \n, \r and one byte that is neither ('x')
Bytes == {LF, CR, 120}

RECURSIVE SeqsUpTo(_, _)
SeqsUpTo(S, n) ==
    IF n = 0 THEN {<<>>}
    ELSE LET shorter == SeqsUpTo(S, n - 1)
         IN  shorter \cup {Append(s, x) : s \in {t \in shorter : Len(t) = n - 1}, x \in S}

\* ------------------------------------------------------------- bytes / str helpers
\* s.endswith(suffix)
EndsWith(s, suffix) ==
    /\ Len(s) >= Len(suffix)
    /\ SubSeq(s, Len(s) - Len(suffix) + 1, Len(s)) = suffix

\* s[:-n]
DropLast(s, n) == SubSeq(s, 1, Len(s) - n)

\* s.startswith('.')
StartsWithDot(s) == Len(s) > 0 /\ s[1] = "."

\* pattern in s (substring test on str)
IsSubstring(pattern, s) ==
    \E i \in 0..(Len(s) - Len(pattern)) : SubSeq(s, i + 1, i + Len(pattern)) = pattern

UpperAlpha == <<"A","B","C","D","E","F","G","H","I","J","K","L","M",
                "N","O","P","Q","R","S","T","U","V","W","X","Y","Z">>
LowerAlpha == <<"a","b","c","d","e","f","g","h","i","j","k","l","m",
                "n","o","p","q","r","s","t","u","v","w","x","y","z">>

\* str.lower(), one character (ASCII)
LowerChar(c) ==
    IF \E i \in DOMAIN UpperAlpha : UpperAlpha[i] = c
    THEN LowerAlpha[CHOOSE i \in DOMAIN UpperAlpha : UpperAlpha[i] = c]
    ELSE c

\* str.lower()
Lower(s) == [i \in 1..Len(s) |-> LowerChar(s[i])]

\* PurePath.suffix: the name from its last '.', unless that dot is the first
\* or the last character of the name
Suffix(name) ==
    LET dots == {i \in 1..Len(name) : name[i] = "."}
    IN  IF dots = {} THEN <<>>
        ELSE LET i == CHOOSE d \in dots : \A e \in dots : e <= d
             IN  IF 1 < i /\ i < Len(name) THEN SubSeq(name, i, Len(name)) ELSE <<>>

\* ------------------------------------------------------------- the trim loops
\* remove_trailing_newlines, line 34: the while condition
TrimCondLFOnly(content) == content # <<>> /\ content[Len(content)] = LF
TrimCond(content) == content # <<>> /\ content[Len(content)] \in {LF, CR}

\* remove_trailing_newlines, lines 35-40: one iteration of the loop body
TrimStepSingle(content) == DropLast(content, 1)
TrimStep(content) ==
    IF EndsWith(content, <<CR, LF>>) THEN DropLast(content, 2)
    ELSE IF EndsWith(content, <<LF>>) THEN DropLast(content, 1)
    ELSE IF EndsWith(content, <<CR>>) THEN DropLast(content, 1)
    ELSE content

\* remove_trailing_newlines, lines 34-40: the whole loop
RECURSIVE Trim(_)
Trim(content) == IF TrimCond(content) THEN Trim(TrimStep(content)) ELSE content

\* process_directory (dry run), line 140: the while condition
DryTrimCondLFOnly(temp_content) ==
    temp_content # <<>> /\ temp_content[Len(temp_content)] = LF
DryTrimCond(temp_content) ==
    temp_content # <<>> /\ temp_content[Len(temp_content)] \in {LF, CR}

\* process_directory (dry run), lines 141-146: one iteration of the loop body
DryTrimStep(temp_content) ==
    IF EndsWith(temp_content, <<CR, LF>>) THEN DropLast(temp_content, 2)
    ELSE IF EndsWith(temp_content, <<LF>>) THEN DropLast(temp_content, 1)
    ELSE IF EndsWith(temp_content, <<CR>>) THEN DropLast(temp_content, 1)
    ELSE temp_content

\* process_directory (dry run), lines 140-146: the whole loop
RECURSIVE DryTrim(_)
DryTrim(temp_content) ==
    IF DryTrimCond(temp_content) THEN DryTrim(DryTrimStep(temp_content))
    ELSE temp_content

\* ------------------------------------------------------------- the filter
\* should_process_file, lines 81-87
binary_extensions == {
    <<".","e","x","e">>, <<".","d","l","l">>, <<".","s","o">>, <<".","d","y","l","i","b">>, <<".","b","i","n">>, <<".","o","b","j">>, <<".","o">>,
    <<".","j","p","g">>, <<".","j","p","e","g">>, <<".","p","n","g">>, <<".","g","i","f">>, <<".","b","m","p">>, <<".","i","c","o">>, <<".","s","v","g">>,
    <<".","m","p","3">>, <<".","m","p","4">>, <<".","a","v","i">>, <<".","m","o","v">>, <<".","w","a","v">>, <<".","f","l","a","c">>,
    <<".","z","i","p">>, <<".","t","a","r">>, <<".","g","z">>, <<".","r","a","r">>, <<".","7","z">>,
    <<".","p","d","f">>, <<".","d","o","c">>, <<".","d","o","c","x">>, <<".","x","l","s">>, <<".","x","l","s","x">>, <<".","p","p","t">>, <<".","p","p","t","x">>
}

\* Path.name: the last component of a path string
PathName(file_path) ==
    LET slashes == {i \in 1..Len(file_path) : file_path[i] = "/"}
    IN  IF slashes = {} THEN file_path
        ELSE SubSeq(file_path, 1 + (CHOOSE d \in slashes : \A e \in slashes : e <= d),
                    Len(file_path))

\* should_process_file with the deny-list compared without .lower()
should_process_file_CaseSensitiveDeny(file_path, extensions, exclude_patterns) ==
    LET suffix == Suffix(PathName(file_path))
    IN  /\ ~(extensions # {} /\ Lower(suffix) \notin extensions)
        /\ ~(\E i \in DOMAIN exclude_patterns : IsSubstring(exclude_patterns[i], file_path))
        /\ suffix \notin binary_extensions

\* should_process_file, lines 69-92. extensions is a set of suffixes, {} for
\* None (both are false in "if extensions and ..."); exclude_patterns a list.
should_process_file(file_path, extensions, exclude_patterns) ==
    LET suffix == Suffix(PathName(file_path))
    IN  /\ ~(extensions # {} /\ Lower(suffix) \notin extensions)
        /\ ~(\E i \in DOMAIN exclude_patterns : IsSubstring(exclude_patterns[i], file_path))
        /\ Lower(suffix) \notin binary_extensions

\* main, lines 223-226: --extensions as a lowercase set, each with its dot
NormalizeExtensions(args) ==
    {IF StartsWithDot(args[i]) THEN Lower(args[i]) ELSE <<".">> \o Lower(args[i]) :
        i \in DOMAIN args}

\* ------------------------------------------------------------- command lines
\* main, line 200: the default of --exclude
DefaultExclude == <<<<".","g","i","t">>, <<"_","_","p","y","c","a","c","h","e","_","_">>, <<"n","o","d","e","_","m","o","d","u","l","e","s">>, <<".","v","e","n","v">>, <<"v","e","n","v">>>>

\* the values of --exclude that are tried
ExcludeArgs == {DefaultExclude, <<<<"s","r","c">>>>}

\* the values of --extensions that are tried (<<>>: the option is absent)
ExtensionArgs == {<<>>, <<<<".","t","x","t">>>>, <<<<"P","N","G">>, <<".","P","y">>, <<"t","x","t">>>>}

\* the directory arguments that are tried
DirectoryArgs == {<<"w">>, <<".","w">>}

\* ------------------------------------------------------------- the tree on disk
\*   <directory>/a.txt  B.PNG  .h.txt
\*   <directory>/.git/sub/d.txt
\*   <directory>/src/e.py
DirIds == {"top", "git", "sub", "src"}
FileIds == {"a_txt", "B_PNG", "h_txt", "d_txt", "e_py"}

\* what os.walk's scandir lists in a directory
Listing(d) ==
    CASE d = "top" -> [dirs |-> <<"git", "src">>, files |-> <<"a_txt", "B_PNG", "h_txt">>]
      [] d = "git" -> [dirs |-> <<"sub">>, files |-> <<>>]
      [] d = "sub" -> [dirs |-> <<>>, files |-> <<"d_txt">>]
      [] d = "src" -> [dirs |-> <<>>, files |-> <<"e_py">>]

EntryName(e) ==
    CASE e = "git" -> <<".","g","i","t">>
      [] e = "sub" -> <<"s","u","b">>
      [] e = "src" -> <<"s","r","c">>
      [] e = "a_txt" -> <<"a",".","t","x","t">>
      [] e = "B_PNG" -> <<"B",".","P","N","G">>
      [] e = "h_txt" -> <<".","h",".","t","x","t">>
      [] e = "d_txt" -> <<"d",".","t","x","t">>
      [] e = "e_py" -> <<"e",".","p","y">>

Parent(e) ==
    CASE e \in {"git", "src", "a_txt", "B_PNG", "h_txt"} -> "top"
      [] e = "sub" -> "git"
      [] e = "d_txt" -> "sub"
      [] e = "e_py" -> "src"

\* the directories an entry lies beneath, the walk's top excluded
RECURSIVE Ancestors(_)
Ancestors(e) ==
    IF Parent(e) = "top" THEN {} ELSE {Parent(e)} \cup Ancestors(Parent(e))

\* a.txt holds any byte sequence up to MaxFileLen; e.py one of SampleContents
\* (empty, no newline, only a newline pair, text and a newline); the others hold
\* <<120, LF>>, which any processing would change
VariedFiles == {"a_txt"}
SampledFiles == {"e_py"}
SampleContents == {<<>>, <<120, 120>>, <<CR, LF>>, <<120, LF>>}
FileContents == SeqsUpTo(Bytes, MaxFileLen)

\* ------------------------------------------------------------- state
VARIABLES
    \* the trim loops (SpecTrim)
    b,              \* the bytes read from the file
    apc,            \* remove_trailing_newlines: "off", "loop", "done"
    content,        \* remove_trailing_newlines: content
    steps,          \* remove_trailing_newlines: [before, after] of each iteration
    apply_result,   \* remove_trailing_newlines: the tuple it returns
    dpc,            \* dry-run branch: "off", "loop", "done"
    temp_content,   \* dry-run branch: temp_content
    dry_result,     \* dry-run branch: whether WOULD MODIFY is printed, and the bytes
    \* the command line (Spec)
    directory,      \* args.directory
    extension_args, \* args.extensions
    exclude_patterns, \* args.exclude
    dry_run,        \* args.dry_run
    \* the file system
    fs,             \* file -> bytes on disk
    fs0,            \* file -> bytes on disk when the run started
    \* main and process_directory
    pc,             \* "off", "main", "walk", "exit"
    extensions,     \* main: the normalized --extensions
    stack,          \* os.walk: directories still to list
    root,           \* process_directory: root of the current os.walk triple
    files,          \* process_directory: files of the current triple not yet iterated
    total_files,
    modified_files,
    total_bytes_removed,
    \* what the run printed and how it ended
    stdout,         \* <<file, n>> of every "Modified:" / "WOULD MODIFY:" line
    summary,        \* <<>> or the three totals of the printed summary
    stderr,         \* sys.stderr: <<"error", file>>, <<"invalid", why>>,
                    \* <<"cancelled", "by user">>
    exit_code,      \* -1 while running
    \* history
    walked,         \* directories os.walk yielded
    visited,        \* files the loop of line 118 iterated over
    processed,      \* files counted by line 128
    reads,          \* files opened 'rb'
    writes,         \* files opened 'wb'
    interrupted     \* a KeyboardInterrupt was raised during the traversal

trimVars == <<b, apc, content, steps, apply_result, dpc, temp_content, dry_result>>
argVars == <<directory, extension_args, exclude_patterns, dry_run>>
counters == <<total_files, modified_files, total_bytes_removed>>
walkVars == <<stack, root, files>>
history == <<walked, visited, processed, reads, writes, interrupted>>
runVars == <<fs, fs0, pc, extensions, walkVars, counters, stdout, summary, stderr,
             exit_code, history>>
vars == <<trimVars, argVars, runVars>>

NoResult == [was_modified |-> FALSE, bytes_removed |-> -1]

TrimOff ==
    /\ b = <<>> /\ content = <<>> /\ temp_content = <<>> /\ steps = <<>>
    /\ apc = "off" /\ dpc = "off"
    /\ apply_result = NoResult /\ dry_result = NoResult

RunOff ==
    /\ directory = <<>> /\ extension_args = <<>> /\ exclude_patterns = <<>>
    /\ dry_run = FALSE
    /\ fs = <<>> /\ fs0 = <<>>
    /\ pc = "off" /\ extensions = {}
    /\ stack = <<>> /\ root = "top" /\ files = <<>>
    /\ total_files = 0 /\ modified_files = 0 /\ total_bytes_removed = 0
    /\ stdout = {} /\ summary = <<>> /\ stderr = {} /\ exit_code = -1
    /\ walked = {} /\ visited = {} /\ processed = {} /\ reads = {} /\ writes = {}
    /\ interrupted = FALSE

\* ------------------------------------------------------------- SpecTrim
\* both loops start on the same bytes (lines 25-26 and 133-134 have read them)
InitTrim ==
    /\ b \in SeqsUpTo(Bytes, MaxLen)
    /\ content = b /\ temp_content = b
    /\ steps = <<>>
    /\ apc = "loop" /\ dpc = "loop"
    /\ apply_result = NoResult /\ dry_result = NoResult
    /\ RunOff

\* remove_trailing_newlines, lines 34-40: one iteration
ApplyLoopIter ==
    /\ apc = "loop"
    /\ TrimCond(content)
    /\ content' = TrimStep(content)
    /\ steps' = Append(steps, [before |-> content, after |-> TrimStep(content)])
    /\ UNCHANGED <<b, apc, apply_result, dpc, temp_content, dry_result, argVars, runVars>>

\* remove_trailing_newlines, lines 28-29 and 42-50: the value returned once the
\* loop has ended (an empty file returns before the loop)
ApplyReturn ==
    /\ apc = "loop"
    /\ ~TrimCond(content)
    /\ apc' = "done"
    /\ LET original_length == Len(b)
           bytes_removed == original_length - Len(content)
       IN  apply_result' =
               IF b = <<>> THEN [was_modified |-> FALSE, bytes_removed |-> 0]
               ELSE IF bytes_removed > 0
                    THEN [was_modified |-> TRUE, bytes_removed |-> bytes_removed]
                    ELSE [was_modified |-> FALSE, bytes_removed |-> 0]
    /\ UNCHANGED <<b, content, steps, dpc, temp_content, dry_result, argVars, runVars>>

\* process_directory, lines 140-146: one iteration
DryLoopIter ==
    /\ dpc = "loop"
    /\ DryTrimCond(temp_content)
    /\ temp_content' = DryTrimStep(temp_content)
    /\ UNCHANGED <<b, apc, content, steps, apply_result, dpc, dry_result, argVars, runVars>>

\* process_directory, lines 136 and 148-152: what the dry run reports and adds
\* to the totals once the loop has ended
DryReturn ==
    /\ dpc = "loop"
    /\ ~DryTrimCond(temp_content)
    /\ dpc' = "done"
    /\ LET original_length == Len(b)
           bytes_would_remove == original_length - Len(temp_content)
       IN  dry_result' =
               IF b # <<>> /\ bytes_would_remove > 0
               THEN [was_modified |-> TRUE, bytes_removed |-> bytes_would_remove]
               ELSE [was_modified |-> FALSE, bytes_removed |-> 0]
    /\ UNCHANGED <<b, apc, content, steps, apply_result, temp_content, argVars, runVars>>

NextTrim == ApplyLoopIter \/ ApplyReturn \/ DryLoopIter \/ DryReturn

SpecTrim == InitTrim /\ [][NextTrim]_vars

\* ------------------------------------------------------------- Spec: the run
\* os.path.join(top, name) down from args.directory
RECURSIVE PathOf(_)
PathOf(d) ==
    IF d = "top" THEN directory
    ELSE PathOf(Parent(d)) \o <<"/">> \o EntryName(d)

\* process_directory, line 119: str(Path(root) / file)
FilePath(file) == PathOf(Parent(file)) \o <<"/">> \o EntryName(file)

\* process_directory, lines 122-126: the file is neither hidden nor filtered out
Qualifies(file) ==
    /\ ~StartsWithDot(EntryName(file))
    /\ should_process_file(FilePath(file), extensions, exclude_patterns)

\* what the operating system does to one file's I/O: all of it succeeds, open 'rb'
\* or read fails, open 'wb' fails (nothing is truncated), or the write fails after
\* open 'wb' truncated the file, leaving the first `kept` bytes of what was written
IOOutcomes ==
    [kind : {"ok", "read_fail", "open_fail"}, kept : {0}]
        \cup [kind : {"write_fail"}, kept : 0..MaxFileLen]

Init ==
    /\ TrimOff
    /\ directory \in DirectoryArgs
    /\ extension_args \in ExtensionArgs
    /\ exclude_patterns \in ExcludeArgs
    /\ dry_run \in BOOLEAN
    /\ fs \in {[x \in FileIds |-> IF x \in VariedFiles THEN v[x]
                                  ELSE IF x \in SampledFiles THEN w[x]
                                  ELSE <<120, LF>>] :
                  v \in [VariedFiles -> FileContents],
                  w \in [SampledFiles -> SampleContents]}
    /\ fs0 = fs
    /\ pc = "main" /\ extensions = {}
    /\ stack = <<>> /\ root = "top" /\ files = <<>>
    /\ total_files = 0 /\ modified_files = 0 /\ total_bytes_removed = 0
    /\ stdout = {} /\ summary = <<>> /\ stderr = {} /\ exit_code = -1
    /\ walked = {} /\ visited = {} /\ processed = {} /\ reads = {} /\ writes = {}
    /\ interrupted = FALSE

\* main, lines 214-220: the directory does not exist or is not a directory
InvalidTarget ==
    /\ pc = "main"
    /\ \E why \in {"does not exist", "is not a directory"} :
           stderr' = stderr \cup {<<"invalid", why>>}
    /\ pc' = "exit"
    /\ exit_code' = 1
    /\ UNCHANGED <<trimVars, argVars, fs, fs0, extensions, walkVars, counters, stdout,
                   summary, history>>

\* main, lines 222-229, and process_directory, lines 105-114: the arguments are
\* normalized, the totals start at 0 and os.walk starts at the directory
StartWalk ==
    /\ pc = "main"
    /\ extensions' = NormalizeExtensions(extension_args)
    /\ total_files' = 0 /\ modified_files' = 0 /\ total_bytes_removed' = 0
    /\ stack' = <<"top">>
    /\ files' = <<>>
    /\ pc' = "walk"
    /\ UNCHANGED <<trimVars, argVars, fs, fs0, root, stdout, summary, stderr, exit_code,
                   history>>

\* process_directory, line 116, without the filter
PruneHiddenKeepAll(dirs) == dirs

\* process_directory, line 116: dirs[:] = [d for d in dirs if not d.startswith('.')]
PruneHidden(dirs) == SelectSeq(dirs, LAMBDA d : ~StartsWithDot(EntryName(d)))

\* process_directory, lines 114-116: os.walk yields the next directory top-down,
\* the loop prunes its hidden subdirectories, os.walk will descend into the rest
WalkDir ==
    /\ pc = "walk"
    /\ files = <<>>
    /\ stack # <<>>
    /\ LET top == Head(stack)
           dirs == PruneHidden(Listing(top).dirs)
       IN  /\ root' = top
           /\ files' = Listing(top).files
           /\ stack' = dirs \o Tail(stack)
           /\ walked' = walked \cup {top}
    /\ UNCHANGED <<trimVars, argVars, fs, fs0, pc, extensions, counters, stdout, summary,
                   stderr, exit_code, visited, processed, reads, writes, interrupted>>

\* remove_trailing_newlines writing back whenever the read succeeded
remove_trailing_newlines_AlwaysWrite(bytes, io) ==
    IF io.kind = "read_fail"
    THEN [was_modified |-> FALSE, bytes_removed |-> 0, disk |-> bytes,
          opened |-> FALSE, error |-> TRUE]
    ELSE LET trimmed == Trim(bytes)
             bytes_removed == Len(bytes) - Len(trimmed)
         IN  IF io.kind = "open_fail"
             THEN [was_modified |-> FALSE, bytes_removed |-> 0, disk |-> bytes,
                   opened |-> TRUE, error |-> TRUE]
             ELSE IF io.kind = "write_fail"
             THEN [was_modified |-> FALSE, bytes_removed |-> 0,
                   disk |-> SubSeq(trimmed, 1, io.kept),
                   opened |-> TRUE, error |-> TRUE]
             ELSE [was_modified |-> bytes_removed > 0, bytes_removed |-> bytes_removed,
                   disk |-> trimmed, opened |-> TRUE, error |-> FALSE]

\* remove_trailing_newlines, lines 23-54, on a file holding `bytes` under the I/O
\* outcome `io`: the tuple returned, the bytes left on disk, whether open 'wb' was
\* called and whether the except clause of lines 52-54 reported an error
remove_trailing_newlines(bytes, io) ==
    IF io.kind = "read_fail"
    THEN [was_modified |-> FALSE, bytes_removed |-> 0, disk |-> bytes,
          opened |-> FALSE, error |-> TRUE]
    ELSE IF bytes = <<>>
    THEN [was_modified |-> FALSE, bytes_removed |-> 0, disk |-> bytes,
          opened |-> FALSE, error |-> FALSE]
    ELSE LET original_length == Len(bytes)
             trimmed == Trim(bytes)
             bytes_removed == original_length - Len(trimmed)
         IN  IF bytes_removed > 0
             THEN IF io.kind = "open_fail"
                  THEN [was_modified |-> FALSE, bytes_removed |-> 0, disk |-> bytes,
                        opened |-> TRUE, error |-> TRUE]
                  ELSE IF io.kind = "write_fail"
                  THEN [was_modified |-> FALSE, bytes_removed |-> 0,
                        disk |-> SubSeq(trimmed, 1, io.kept),
                        opened |-> TRUE, error |-> TRUE]
                  ELSE [was_modified |-> TRUE, bytes_removed |-> bytes_removed,
                        disk |-> trimmed, opened |-> TRUE, error |-> FALSE]
             ELSE [was_modified |-> FALSE, bytes_removed |-> 0, disk |-> bytes,
                   opened |-> FALSE, error |-> FALSE]

\* the I/O outcomes that can happen to a file holding `bytes`: a write can only
\* fail where one is made, and leaves no more than was to be written
Applicable(bytes, io) ==
    /\ io.kind \in {"open_fail", "write_fail"} => Len(Trim(bytes)) < Len(bytes)
    /\ io.kept <= Len(Trim(bytes))

\* process_directory, lines 158-163: apply mode
ApplyFile(file, io) ==
    /\ Applicable(fs[file], io)
    /\ LET r == remove_trailing_newlines(fs[file], io)
       IN  /\ fs' = [fs EXCEPT ![file] = r.disk]
           /\ reads' = reads \cup {file}
           /\ writes' = IF r.opened THEN writes \cup {file} ELSE writes
           /\ stderr' = IF r.error THEN stderr \cup {<<"error", file>>} ELSE stderr
           /\ IF r.was_modified
              THEN /\ stdout' = stdout \cup {<<file, r.bytes_removed>>}
                   /\ modified_files' = modified_files + 1
                   /\ total_bytes_removed' = total_bytes_removed + r.bytes_removed
              ELSE UNCHANGED <<stdout, modified_files, total_bytes_removed>>
    /\ UNCHANGED <<pc, exit_code>>

\* the except clause of lines 154-155 missing: the OSError leaves main uncaught
DryReadErrorUncaught(file) ==
    /\ pc' = "exit"
    /\ exit_code' = 1
    /\ stderr' = stderr \cup {<<"traceback", file>>}
    /\ UNCHANGED <<stdout, modified_files, total_bytes_removed>>

\* process_directory, lines 154-155: the read failed
DryReadError(file) ==
    /\ stderr' = stderr \cup {<<"error", file>>}
    /\ UNCHANGED <<pc, exit_code, stdout, modified_files, total_bytes_removed>>

\* the dry-run flag ignored
DryRunFileWrites(file, io) == ApplyFile(file, io)

\* process_directory, lines 130-155: dry-run mode
DryRunFile(file, io) ==
    /\ io.kind \in {"ok", "read_fail"}
    /\ reads' = reads \cup {file}
    /\ UNCHANGED <<fs, writes>>
    /\ IF io.kind = "read_fail"
       THEN DryReadError(file)
       ELSE LET bytes == fs[file]
                original_length == Len(bytes)
                bytes_would_remove == original_length - Len(DryTrim(bytes))
            IN  /\ IF bytes # <<>> /\ bytes_would_remove > 0
                   THEN /\ stdout' = stdout \cup {<<file, bytes_would_remove>>}
                        /\ modified_files' = modified_files + 1
                        /\ total_bytes_removed' = total_bytes_removed + bytes_would_remove
                   ELSE UNCHANGED <<stdout, modified_files, total_bytes_removed>>
                /\ UNCHANGED <<pc, exit_code, stderr>>

\* total_files incremented only once the file has been read
ProcessQualifyingCountAfterRead(file, io) ==
    /\ total_files' = IF io.kind = "read_fail" THEN total_files ELSE total_files + 1
    /\ processed' = processed \cup {file}
    /\ IF dry_run THEN DryRunFile(file, io) ELSE ApplyFile(file, io)

\* process_directory, lines 128-163: a file that passed the filter
ProcessQualifying(file, io) ==
    /\ total_files' = total_files + 1
    /\ processed' = processed \cup {file}
    /\ IF dry_run THEN DryRunFile(file, io) ELSE ApplyFile(file, io)

\* process_directory, lines 118-163: one iteration of the loop over files
ProcessFile ==
    /\ pc = "walk"
    /\ files # <<>>
    /\ LET file == Head(files)
       IN  /\ files' = Tail(files)
           /\ visited' = visited \cup {file}
           /\ IF Qualifies(file)
              THEN \E io \in IOOutcomes : ProcessQualifying(file, io)
              ELSE UNCHANGED <<fs, pc, counters, stdout, stderr, exit_code, processed,
                               reads, writes>>
    /\ UNCHANGED <<trimVars, argVars, fs0, extensions, stack, root, summary, walked,
                   interrupted>>

\* process_directory, lines 165-168, and the return to main: the summary, exit 0
Summary ==
    /\ pc = "walk"
    /\ files = <<>>
    /\ stack = <<>>
    /\ summary' = <<total_files, modified_files, total_bytes_removed>>
    /\ pc' = "exit"
    /\ exit_code' = 0
    /\ UNCHANGED <<trimVars, argVars, fs, fs0, extensions, walkVars, counters, stdout,
                   stderr, history>>

\* the interrupt swallowed inside the traversal, which goes on
KeyboardInterruptSwallowed ==
    /\ pc = "walk"
    /\ ~interrupted
    /\ interrupted' = TRUE
    /\ UNCHANGED <<trimVars, argVars, fs, fs0, pc, extensions, walkVars, counters, stdout,
                   summary, stderr, exit_code, walked, visited, processed, reads, writes>>

\* main, lines 228-232: a KeyboardInterrupt raised anywhere in process_directory
\* reaches main's except clause: the notice, then sys.exit(1). Raised inside
\* f.write of line 47 it leaves the file truncated to what was written so far.
KeyboardInterrupt ==
    /\ pc = "walk"
    /\ interrupted' = TRUE
    /\ stderr' = stderr \cup {<<"cancelled", "by user">>}
    /\ pc' = "exit"
    /\ exit_code' = 1
    /\ \/ UNCHANGED <<fs, files, total_files, visited, processed, reads, writes>>
       \/ /\ ~dry_run
          /\ files # <<>>
          /\ Qualifies(Head(files))
          /\ LET file == Head(files)
                 trimmed == Trim(fs[file])
             IN  /\ Len(trimmed) < Len(fs[file])
                 /\ \E kept \in 0..Len(trimmed) :
                        fs' = [fs EXCEPT ![file] = SubSeq(trimmed, 1, kept)]
                 /\ files' = Tail(files)
                 /\ total_files' = total_files + 1
                 /\ visited' = visited \cup {file}
                 /\ processed' = processed \cup {file}
                 /\ reads' = reads \cup {file}
                 /\ writes' = writes \cup {file}
    /\ UNCHANGED <<trimVars, argVars, fs0, extensions, stack, root, modified_files,
                   total_bytes_removed, stdout, summary, walked>>

Next ==
    \/ InvalidTarget
    \/ StartWalk
    \/ WalkDir
    \/ ProcessFile
    \/ Summary
    \/ KeyboardInterrupt

Spec == Init /\ [][Next]_vars

\* ------------------------------------------------------------- properties
\* the last byte of s is \n or \r
EndsInNewline(s) == s # <<>> /\ s[Len(s)] \in {LF, CR}

\* t is s without its whole trailing run of \n and \r bytes
IsTrimOf(t, s) ==
    /\ Len(t) <= Len(s)
    /\ t = SubSeq(s, 1, Len(t))
    /\ \A i \in (Len(t) + 1)..Len(s) : s[i] \in {LF, CR}
    /\ ~EndsInNewline(t)

\* t is the first bytes of s
IsPrefix(t, s) == Len(t) <= Len(s) /\ t = SubSeq(s, 1, Len(t))

\* the bytes iteration i of the apply loop removed
Removed(i) == SubSeq(steps[i].before, Len(steps[i].after) + 1, Len(steps[i].before))

\* files for which an I/O error was reported
Failed == {f \in FileIds : <<"error", f>> \in stderr}

\* files a "Modified:" or "WOULD MODIFY:" line was printed for
Reported == {f \in FileIds : \E n \in 0..MaxFileLen : <<f, n>> \in stdout}

\* files lying beneath a hidden directory that is below the walk's top
BelowHiddenSubdir(e) == \E d \in Ancestors(e) : StartsWithDot(EntryName(d))

\* C1: once remove_trailing_newlines has trimmed any byte sequence b, the trimmed
\* content is empty or does not end in \n or \r, and len(b) is the length of the
\* trimmed content plus the bytes_removed it returns.
C1_TrimPostcondition ==
    apc = "done" =>
        /\ content = <<>> \/ content[Len(content)] \notin {LF, CR}
        /\ Len(b) = Len(content) + apply_result.bytes_removed

C1_Witness ==
    /\ apc = "done"
    /\ b = <<120, CR, LF, LF>>
    /\ content = <<120>>
    /\ apply_result.bytes_removed = 3

\* C2: on the same bytes, the dry-run computation of process_directory and the
\* computation of remove_trailing_newlines give the same bytes removed and the
\* same modified / not modified verdict.
C2_DryRunAgreesWithApply ==
    (apc = "done" /\ dpc = "done") => dry_result = apply_result

C2_Witness ==
    /\ apc = "done" /\ dpc = "done"
    /\ b = <<120, LF, CR>>
    /\ dry_result = [was_modified |-> TRUE, bytes_removed |-> 2]

\* C3: in a dry run every file holds, in every state, the bytes it held when the
\* run started, and no file is ever opened for writing.
C3_DryRunWritesNothing ==
    dry_run => (fs = fs0 /\ writes = {})

C3_Witness ==
    /\ dry_run
    /\ pc = "exit" /\ exit_code = 0
    /\ <<"a_txt", 2>> \in stdout
    /\ summary[2] >= 1

\* C4: a step in which a file's read or write fails leaves files modified and total
\* bytes removed as they were, prints no modification line, and goes on to the next
\* file; a file whose I/O failed is never reported as modified; the traversal can
\* always take its next step (the next directory, the next file or the summary);
\* and a run that started walking and was not
\* interrupted ends with the summary printed and exit status 0.
C4_FailureIsolated ==
    /\ [][Failed' # Failed =>
            /\ modified_files' = modified_files
            /\ total_bytes_removed' = total_bytes_removed
            /\ stdout' = stdout
            /\ pc' = "walk"
            /\ files' = Tail(files)]_vars
    /\ [](/\ Failed \cap Reported = {}
          /\ (pc = "walk" /\ files = <<>>) => ENABLED (WalkDir \/ Summary)
          /\ (pc = "walk" /\ files # <<>> /\ Qualifies(Head(files))) =>
                 ENABLED (\E io \in IOOutcomes : ProcessQualifying(Head(files), io))
          /\ (pc = "exit" /\ walked # {} /\ ~interrupted) =>
                 (exit_code = 0 /\ summary = <<total_files, modified_files,
                                               total_bytes_removed>>))

C4_Witness ==
    /\ pc = "exit"
    /\ <<"error", "a_txt">> \in stderr
    /\ "e_py" \in Reported
    /\ summary = <<2, 1, 1>>

\* C5 as stated: in apply mode a file whose content changed had bytes to remove and
\* now holds exactly the trimmed content, and a file with nothing to remove is
\* never opened for writing and is unchanged.
C5_Original ==
    ~dry_run =>
        \A f \in FileIds :
            /\ fs[f] # fs0[f] => (EndsInNewline(fs0[f]) /\ IsTrimOf(fs[f], fs0[f]))
            /\ ~EndsInNewline(fs0[f]) => (f \notin writes /\ fs[f] = fs0[f])

\* C5 amended: in apply mode a file is opened for writing only when there are bytes
\* to remove; when the write completes (the file is reported as modified) its
\* content is exactly the trimmed content and the reported count is the bytes
\* removed; a write that fails or is interrupted leaves the file unchanged or
\* holding the first bytes of the trimmed content; a file with nothing to remove
\* is never opened for writing and is unchanged.
C5_Amended ==
    ~dry_run =>
        \A f \in FileIds :
            /\ f \in writes => EndsInNewline(fs0[f])
            /\ f \notin writes => fs[f] = fs0[f]
            /\ f \in Reported =>
                  /\ f \in writes
                  /\ IsTrimOf(fs[f], fs0[f])
                  /\ <<f, Len(fs0[f]) - Len(fs[f])>> \in stdout
            /\ (f \in writes /\ f \notin Reported) =>
                  \/ fs[f] = fs0[f]
                  \/ \E t \in FileContents : IsTrimOf(t, fs0[f]) /\ IsPrefix(fs[f], t)
            /\ ~EndsInNewline(fs0[f]) => (f \notin writes /\ fs[f] = fs0[f])

C5_Witness ==
    /\ ~dry_run
    /\ pc = "exit" /\ exit_code = 0
    /\ fs0["a_txt"] = <<120, LF>> /\ fs["a_txt"] = <<120>>
    /\ <<"a_txt", 1>> \in stdout
    /\ fs0["e_py"] = <<120, 120>> /\ "e_py" \in reads /\ "e_py" \notin writes

\* C6: a file whose extension, lowercased, is in the binary deny-list is never
\* counted, read, written, reported or changed, whatever --extensions and --exclude
\* are (B.PNG, with .png in the allow-list, included).
C6_DenyListAlwaysApplies ==
    \A f \in FileIds :
        Lower(Suffix(EntryName(f))) \in binary_extensions =>
            /\ f \notin processed
            /\ f \notin reads
            /\ f \notin writes
            /\ f \notin Reported
            /\ fs[f] = fs0[f]

C6_Witness ==
    /\ Lower(Suffix(EntryName("B_PNG"))) \in binary_extensions
    /\ <<".", "p", "n", "g">> \in extensions
    /\ "B_PNG" \in visited
    /\ "a_txt" \in processed
    /\ pc = "exit" /\ exit_code = 0

\* C7 as stated: no file beneath a hidden directory, the directory given on the
\* command line included, is ever iterated over, counted, read or written.
C7_Original ==
    \A f \in FileIds :
        (StartsWithDot(directory) \/ BelowHiddenSubdir(f)) =>
            /\ f \notin visited
            /\ f \notin processed
            /\ f \notin reads
            /\ f \notin writes

\* C7 amended: a hidden directory met below the directory given on the command line
\* is never yielded by the walk, nor is anything beneath it, and no file beneath it
\* is ever iterated over, counted, read, written or changed; the directory given on
\* the command line is walked even when its own name starts with '.'.
C7_Amended ==
    /\ \A d \in walked :
           d = "top" \/ (~StartsWithDot(EntryName(d)) /\ ~BelowHiddenSubdir(d))
    /\ \A f \in FileIds :
           BelowHiddenSubdir(f) =>
               /\ f \notin visited
               /\ f \notin processed
               /\ f \notin reads
               /\ f \notin writes
               /\ fs[f] = fs0[f]

C7_Witness ==
    /\ pc = "exit" /\ exit_code = 0
    /\ exclude_patterns = <<<<"s", "r", "c">>>>
    /\ extensions = {}
    /\ walked = {"top", "src"}
    /\ BelowHiddenSubdir("d_txt")
    /\ "a_txt" \in processed

\* C8: once a user interrupt has arrived during the traversal, the summary is not
\* printed, the cancellation notice is on stderr and the process has ended with
\* exit status 1.
C8_InterruptAbandonsRun ==
    interrupted =>
        /\ summary = <<>>
        /\ <<"cancelled", "by user">> \in stderr
        /\ pc = "exit"
        /\ exit_code = 1

C8_Witness ==
    /\ interrupted
    /\ processed # {}
    /\ files # <<>>
    /\ exit_code = 1

\* C9 as stated: \r\n\n\r is stripped to empty content over 2 iterations.
C9_Original ==
    (apc = "done" /\ b = <<CR, LF, LF, CR>>) => (content = <<>> /\ Len(steps) = 2)

\* C9 amended: every iteration of the trim loop removes the pair \r\n when the
\* content ends in exactly that pair and the single last byte otherwise; the loop
\* ends with all trailing \n and \r removed, in any order they come; \r\n\n\r is
\* stripped to empty content over 3 iterations: \r removed, then \n, then the
\* pair \r\n.
C9_Amended ==
    /\ \A i \in 1..Len(steps) :
           /\ IsPrefix(steps[i].after, steps[i].before)
           /\ Removed(i) = IF EndsWith(steps[i].before, <<CR, LF>>)
                           THEN <<CR, LF>>
                           ELSE <<steps[i].before[Len(steps[i].before)]>>
    /\ apc = "done" => IsTrimOf(content, b)
    /\ (apc = "done" /\ b = <<CR, LF, LF, CR>>) =>
           /\ content = <<>>
           /\ Len(steps) = 3
           /\ Removed(1) = <<CR>> /\ Removed(2) = <<LF>> /\ Removed(3) = <<CR, LF>>

C9_Witness ==
    /\ apc = "done"
    /\ b = <<CR, LF, LF, CR>>
    /\ content = <<>>
    /\ Len(steps) = 3

\* C10: in every state of a run files modified <= files processed and total bytes
\* removed >= files modified; no counter ever decreases; files processed is the
\* number of files iterated over that are not hidden and pass the filter, each
\* counted once, whether or not its read succeeded: every file read or whose I/O
\* failed has been counted.
C10_CounterInvariants ==
    /\ [](/\ modified_files <= total_files
          /\ total_bytes_removed >= modified_files
          /\ pc \in {"walk", "exit"} =>
                /\ processed = {f \in visited : Qualifies(f)}
                /\ total_files = Cardinality(processed)
          /\ reads \subseteq processed
          /\ Failed \subseteq processed)
    /\ [][/\ total_files' >= total_files
          /\ total_files' <= total_files + 1
          /\ modified_files' >= modified_files
          /\ total_bytes_removed' >= total_bytes_removed]_vars

C10_Witness ==
    /\ pc = "exit" /\ exit_code = 0
    /\ summary = <<2, 1, 2>>
    /\ <<"error", "a_txt">> \in stderr
    /\ fs0["a_txt"] = <<>>

====
